---------------------------- MODULE Spec2Model ----------------------------
(***************************************************************************)
(* Model of the criteria dashboard (app.py): the cached Nextcloud fetch,   *)
(* the Excel / CSV decoding chain with its column renaming, the script     *)
(* run of main() with its schema check, summary statistics, hierarchy      *)
(* construction and search, and the label word-wrap of the specification.  *)
(*                                                                         *)
(* Text is a sequence of one-character strings.  A DataFrame cell is a     *)
(* record [isna, text]: isna marks a NaN / None cell.  A DataFrame is a    *)
(* record [columns, rows]: the header names in order and the rows, each a  *)
(* sequence of cells aligned with the header.                              *)
(***************************************************************************)
EXTENDS Integers, Sequences, FiniteSets, TLC

(***************************************************************************)
(* Characters of the model in code point order, and the upper-case ones    *)
(* with their lower-case forms (Python's str.lower and string comparison). *)
(***************************************************************************)
CodePoints ==
  <<
    " ", "'", ",", "-", ".", ":", ";", "?", "A", "B", "C", "D",
    "E", "F", "G", "I", "J", "K", "L", "M", "N", "P", "T", "V",
    "a", "b", "c", "d", "e", "f", "g", "h", "i", "j", "k", "l",
    "m", "n", "o", "p", "q", "r", "s", "t", "u", "v", "x", "y",
    "z", "É", "Î", "à", "è", "é", "î"
  >>

UpperCase ==
  <<
    "A", "B", "C", "D", "E", "F", "G", "I", "J", "K", "L", "M",
    "N", "P", "T", "V", "É", "Î"
  >>

LowerCase ==
  <<
    "a", "b", "c", "d", "e", "f", "g", "i", "j", "k", "l", "m",
    "n", "p", "t", "v", "é", "î"
  >>

PLACEHOLDER ==
  <<
    "P", "a", "s", " ", "d", "e", " ", "d", "e", "s", "c", "r",
    "i", "p", "t", "i", "o", "n", " ", "d", "i", "s", "p", "o",
    "n", "i", "b", "l", "e"
  >>

demo_impact ==
  <<
    <<
      "I", "m", "p", "a", "c", "t", "s", " ", "e", "n", "v", "i", "r", "o",
      "n", "n", "e", "m", "e", "n", "t", "a", "u", "x", " ", "d", "i", "r",
      "e", "c", "t", "s"
    >>,
    <<
      "I", "m", "p", "a", "c", "t", "s", " ", "e", "n", "v", "i", "r", "o",
      "n", "n", "e", "m", "e", "n", "t", "a", "u", "x", " ", "d", "i", "r",
      "e", "c", "t", "s"
    >>,
    <<
      "I", "m", "p", "a", "c", "t", "s", " ", "e", "n", "v", "i", "r", "o",
      "n", "n", "e", "m", "e", "n", "t", "a", "u", "x", " ", "d", "i", "r",
      "e", "c", "t", "s"
    >>,
    <<
      "I", "m", "p", "a", "c", "t", "s", " ", "e", "n", "v", "i", "r", "o",
      "n", "n", "e", "m", "e", "n", "t", "a", "u", "x", " ", "d", "i", "r",
      "e", "c", "t", "s"
    >>,
    <<
      "I", "m", "p", "a", "c", "t", "s", " ", "e", "n", "v", "i", "r", "o",
      "n", "n", "e", "m", "e", "n", "t", "a", "u", "x", " ", "i", "n", "d",
      "i", "r", "e", "c", "t", "s"
    >>,
    <<
      "I", "m", "p", "a", "c", "t", "s", " ", "e", "n", "v", "i", "r", "o",
      "n", "n", "e", "m", "e", "n", "t", "a", "u", "x", " ", "i", "n", "d",
      "i", "r", "e", "c", "t", "s"
    >>,
    <<
      "I", "m", "p", "a", "c", "t", "s", " ", "é", "c", "o", "-", "s", "o",
      "c", "i", "a", "u", "x"
    >>,
    <<
      "I", "m", "p", "a", "c", "t", "s", " ", "é", "c", "o", "-", "s", "o",
      "c", "i", "a", "u", "x"
    >>,
    <<
      "I", "m", "p", "a", "c", "t", "s", " ", "t", "e", "m", "p", "o", "r",
      "e", "l", "s", " ", "e", "t", " ", "c", "o", "n", "t", "e", "x", "t",
      "u", "e", "l", "s"
    >>,
    <<
      "C", "r", "i", "t", "è", "r", "e", "s", " ", "d", "'", "é", "v", "a",
      "l", "u", "a", "t", "i", "o", "n", " ", "t", "r", "a", "n", "s", "v",
      "e", "r", "s", "a", "u", "x"
    >>
  >>

demo_type ==
  <<
    <<
      "M", "a", "t", "é", "r", "i", "a", "u", "x", " ", "e", "t", " ", "r",
      "e", "s", "s", "o", "u", "r", "c", "e", "s"
    >>,
    <<
      "M", "a", "t", "é", "r", "i", "a", "u", "x", " ", "e", "t", " ", "r",
      "e", "s", "s", "o", "u", "r", "c", "e", "s"
    >>,
    <<
      "É", "n", "e", "r", "g", "i", "e", " ", "e", "t", " ", "c", "l", "i",
      "m", "a", "t"
    >>,
    <<
      "T", "r", "a", "n", "s", "p", "o", "r", "t", " ", "e", "t", " ", "l",
      "o", "g", "i", "s", "t", "i", "q", "u", "e"
    >>,
    <<
      "C", "y", "c", "l", "e", " ", "d", "e", " ", "v", "i", "e"
    >>,
    <<
      "E", "f", "f", "e", "t", "s", " ", "s", "y", "s", "t", "é", "m", "i",
      "q", "u", "e", "s"
    >>,
    <<
      "J", "u", "s", "t", "i", "c", "e", " ", "s", "o", "c", "i", "a", "l",
      "e", " ", "e", "t", " ", "é", "q", "u", "i", "t", "é"
    >>,
    <<
      "É", "c", "o", "n", "o", "m", "i", "e", " ", "l", "o", "c", "a", "l",
      "e", " ", "e", "t", " ", "t", "e", "r", "r", "i", "t", "o", "r", "i",
      "a", "l", "e"
    >>,
    <<
      "D", "u", "r", "é", "e", " ", "e", "t", " ", "i", "n", "t", "e", "n",
      "s", "i", "t", "é"
    >>,
    <<
      "I", "n", "n", "o", "v", "a", "t", "i", "o", "n", " ", "e", "t", " ",
      "e", "x", "e", "m", "p", "l", "a", "r", "i", "t", "é"
    >>
  >>

demo_critere ==
  <<
    <<
      "E", "m", "p", "r", "e", "i", "n", "t", "e", " ", "c", "a", "r", "b",
      "o", "n", "e", " ", "d", "e", "s", " ", "m", "a", "t", "é", "r", "i",
      "a", "u", "x"
    >>,
    <<
      "C", "o", "n", "s", "o", "m", "m", "a", "t", "i", "o", "n", " ", "d",
      "'", "e", "a", "u"
    >>,
    <<
      "C", "o", "n", "s", "o", "m", "m", "a", "t", "i", "o", "n", " ", "é",
      "n", "e", "r", "g", "é", "t", "i", "q", "u", "e", " ", "é", "c", "l",
      "a", "i", "r", "a", "g", "e"
    >>,
    <<
      "D", "i", "s", "t", "a", "n", "c", "e", " ", "p", "a", "r", "c", "o",
      "u", "r", "u", "e", " ", "m", "a", "t", "é", "r", "i", "a", "u", "x"
    >>,
    <<
      "F", "i", "n", " ", "d", "e", " ", "v", "i", "e", " ", "d", "e", "s",
      " ", "m", "a", "t", "é", "r", "i", "a", "u", "x"
    >>,
    <<
      "Î", "l", "o", "t", " ", "d", "e", " ", "c", "h", "a", "l", "e", "u",
      "r", " ", "u", "r", "b", "a", "i", "n"
    >>,
    <<
      "É", "q", "u", "i", "t", "é", " ", "d", "'", "a", "c", "c", "è", "s",
      " ", "a", "u", " ", "p", "r", "o", "j", "e", "t"
    >>,
    <<
      "I", "m", "p", "a", "c", "t", " ", "s", "u", "r", " ", "é", "c", "o",
      "n", "o", "m", "i", "e", " ", "l", "o", "c", "a", "l", "e"
    >>,
    <<
      "D", "u", "r", "é", "e", " ", "d", "e", " ", "v", "i", "e", " ", "d",
      "u", " ", "p", "r", "o", "j", "e", "t"
    >>,
    <<
      "C", "a", "r", "a", "c", "t", "è", "r", "e", " ", "i", "n", "n", "o",
      "v", "a", "n", "t"
    >>
  >>

demo_description ==
  <<
    <<
      "G", "a", "z", " ", "à", " ", "e", "f", "f", "e", "t", " ", "d", "e",
      " ", "s", "e", "r", "r", "e", " ", "l", "i", "é", "s", " ", "à", " ",
      "l", "'", "e", "x", "t", "r", "a", "c", "t", "i", "o", "n", ",", " ",
      "t", "r", "a", "n", "s", "f", "o", "r", "m", "a", "t", "i", "o", "n",
      " ", "e", "t", " ", "t", "r", "a", "n", "s", "p", "o", "r", "t", "."
    >>,
    <<
      "V", "o", "l", "u", "m", "e", " ", "d", "'", "e", "a", "u", " ", "u",
      "t", "i", "l", "i", "s", "é", " ", "p", "o", "u", "r", " ", "f", "a",
      "b", "r", "i", "q", "u", "e", "r", " ", "l", "e", "s", " ", "m", "a",
      "t", "é", "r", "i", "a", "u", "x", "."
    >>,
    <<
      "É", "n", "e", "r", "g", "i", "e", " ", "u", "t", "i", "l", "i", "s",
      "é", "e", " ", "p", "o", "u", "r", " ", "l", "'", "é", "c", "l", "a",
      "i", "r", "a", "g", "e", "."
    >>,
    <<
      "K", "i", "l", "o", "m", "è", "t", "r", "e", "s", " ", "p", "a", "r",
      "c", "o", "u", "r", "u", "s", " ", "p", "a", "r", " ", "l", "e", "s",
      " ", "m", "a", "t", "é", "r", "i", "a", "u", "x", " ", "d", "e", "p",
      "u", "i", "s", " ", "l", "e", "u", "r", " ", "o", "r", "i", "g", "i",
      "n", "e", "."
    >>,
    <<
      "M", "o", "d", "e", " ", "d", "e", " ", "t", "r", "a", "i", "t", "e",
      "m", "e", "n", "t", " ", ":", " ", "i", "n", "c", "i", "n", "é", "r",
      "a", "t", "i", "o", "n", ",", " ", "e", "n", "f", "o", "u", "i", "s",
      "s", "e", "m", "e", "n", "t", ",", " ", "r", "e", "c", "y", "c", "l",
      "a", "g", "e", "."
    >>,
    <<
      "C", "o", "n", "t", "r", "i", "b", "u", "t", "i", "o", "n", " ", "a",
      "u", " ", "r", "é", "c", "h", "a", "u", "f", "f", "e", "m", "e", "n",
      "t", " ", "l", "o", "c", "a", "l", "."
    >>,
    <<
      "L", "e", " ", "p", "r", "o", "j", "e", "t", " ", "b", "é", "n", "é",
      "f", "i", "c", "i", "e", "-", "t", "-", "i", "l", " ", "é", "q", "u",
      "i", "t", "a", "b", "l", "e", "m", "e", "n", "t", " ", "à", " ", "t",
      "o", "u", "s", " ", "l", "e", "s", " ", "g", "r", "o", "u", "p", "e",
      "s", " ", "s", "o", "c", "i", "a", "u", "x", " ", "?"
    >>,
    <<
      "E", "f", "f", "e", "t", " ", "p", "o", "s", "i", "t", "i", "f", " ",
      "s", "u", "r", " ", "l", "'", "é", "c", "o", "n", "o", "m", "i", "e",
      " ", "e", "t", " ", "l", "'", "e", "m", "p", "l", "o", "i", " ", "l",
      "o", "c", "a", "l", "."
    >>,
    <<
      "E", "s", "t", "i", "m", "a", "t", "i", "o", "n", " ", "d", "e", " ",
      "l", "a", " ", "d", "u", "r", "é", "e", " ", "d", "e", " ", "v", "i",
      "e", " ", "t", "e", "c", "h", "n", "i", "q", "u", "e", " ", "e", "t",
      " ", "f", "o", "n", "c", "t", "i", "o", "n", "n", "e", "l", "l", "e",
      "."
    >>,
    <<
      "D", "e", "g", "r", "é", " ", "d", "'", "i", "n", "n", "o", "v", "a",
      "t", "i", "o", "n", " ", "t", "e", "c", "h", "n", "i", "q", "u", "e",
      ",", " ", "s", "o", "c", "i", "a", "l", "e", " ", "o", "u", " ", "e",
      "n", "v", "i", "r", "o", "n", "n", "e", "m", "e", "n", "t", "a", "l",
      "e", "."
    >>
  >>

(***************************************************************************)
(* Python text operations.                                                 *)
(***************************************************************************)
Whitespace == {" "}

RECURSIVE lstrip(_)
lstrip(s) ==
  IF s # <<>> /\ Head(s) \in Whitespace THEN lstrip(Tail(s)) ELSE s

RECURSIVE rstrip(_)
rstrip(s) ==
  IF s # <<>> /\ s[Len(s)] \in Whitespace
  THEN rstrip(SubSeq(s, 1, Len(s) - 1))
  ELSE s

\* str.strip(): leading and trailing whitespace removed.
strip(s) == rstrip(lstrip(s))

lower_char(c) ==
  IF \E i \in 1..Len(UpperCase) : UpperCase[i] = c
  THEN LowerCase[CHOOSE i \in 1..Len(UpperCase) : UpperCase[i] = c]
  ELSE c

\* str.lower()
lower(s) == [i \in 1..Len(s) |-> lower_char(s[i])]

\* needle in hay
contains(needle, hay) ==
  \E i \in 0..(Len(hay) - Len(needle)) :
    SubSeq(hay, i + 1, i + Len(needle)) = needle

ord(c) == CHOOSE i \in 1..Len(CodePoints) : CodePoints[i] = c

\* a < b on str: lexicographic by code point.
RECURSIVE text_lt(_, _)
text_lt(a, b) ==
  IF b = <<>> THEN FALSE
  ELSE IF a = <<>> THEN TRUE
  ELSE IF Head(a) = Head(b) THEN text_lt(Tail(a), Tail(b))
  ELSE ord(Head(a)) < ord(Head(b))

(***************************************************************************)
(* pandas cells and frames.                                                *)
(***************************************************************************)
NaN == [isna |-> TRUE, text |-> <<>>]

Cell(s) == [isna |-> FALSE, text |-> s]

\* pd.notna
notna(c) == ~c.isna

\* str(value): a NaN cell prints as "nan".
str(c) == IF c.isna THEN <<"n", "a", "n">> ELSE c.text

None == [none |-> TRUE]

DataFrame(cols, rs) == [columns |-> cols, rows |-> rs]

\* Position of a column label (labels are distinct in the frames modelled).
loc(d, name) == CHOOSE i \in 1..Len(d.columns) : d.columns[i] = name

\* row[name]
at(d, row, name) == row[loc(d, name)]

\* df[name]
column(d, name) == [i \in 1..Len(d.rows) |-> at(d, d.rows[i], name)]

\* df.dropna(subset=...): rows with a NaN in one of the subset columns go.
dropna(d, subset) ==
  LET keep(row) == \A name \in subset : notna(at(d, row, name))
  IN  [d EXCEPT !.rows = SelectSeq(d.rows, keep)]

required_columns == <<"impact", "type", "critère", "description">>

\* The renaming with the column test off by one.
normalize_columns_above_four(d) ==
  IF Len(d.columns) > 4
  THEN [d EXCEPT !.columns =
          <<"impact", "type", "critère", "description">>
            \o SubSeq(d.columns, 5, Len(d.columns))]
  ELSE d

\* The renaming applied to a decoded frame: the first four labels are
\* replaced when the frame has at least four columns.
normalize_columns(d) ==
  IF Len(d.columns) >= 4
  THEN [d EXCEPT !.columns =
          <<"impact", "type", "critère", "description">>
            \o SubSeq(d.columns, 5, Len(d.columns))]
  ELSE d

\* The record appended for one row of df_clean.
tree_item(d, row) ==
  [impact      |-> strip(str(at(d, row, "impact"))),
   type        |-> strip(str(at(d, row, "type"))),
   critere     |-> strip(str(at(d, row, "critère"))),
   description |-> IF notna(at(d, row, "description"))
                   THEN strip(str(at(d, row, "description")))
                   ELSE PLACEHOLDER]

create_tree_visualization(d) ==
  LET df_clean == dropna(d, {"impact", "type", "critère"})
  IN  [i \in 1..Len(df_clean.rows) |-> tree_item(df_clean, df_clean.rows[i])]

\* len(series.unique()): NaN counts as one value.
nunique(series) == Cardinality({series[i] : i \in 1..Len(series)})

RECURSIVE sorted_texts(_)
sorted_texts(S) ==
  IF S = {} THEN <<>>
  ELSE LET m == CHOOSE x \in S : \A y \in S \ {x} : text_lt(x, y)
       IN  <<m>> \o sorted_texts(S \ {m})

\* df.groupby(name).size().reset_index(name='count'): one line per distinct
\* non-NaN value of the column, in key order, with its number of rows.
groupby_size(d, name) ==
  LET series == column(d, name)
      keys   == sorted_texts({series[i].text :
                               i \in {j \in 1..Len(series) : notna(series[j])}})
  IN  [k \in 1..Len(keys) |->
         [impact |-> keys[k],
          count  |-> Cardinality({i \in 1..Len(series) :
                                   notna(series[i]) /\ series[i].text = keys[k]})]]

\* sort_values('count', ascending=True); equal counts keep their order.
RECURSIVE sort_values(_)
sort_values(s) ==
  IF s = <<>> THEN <<>>
  ELSE LET m == CHOOSE i \in 1..Len(s) :
                  /\ \A j \in 1..Len(s) : s[i].count <= s[j].count
                  /\ \A j \in 1..(i - 1) : s[j].count > s[i].count
       IN  <<s[m]>> \o sort_values(SubSeq(s, 1, m - 1) \o SubSeq(s, m + 1, Len(s)))

\* What display_summary_stats puts on the page: the four metrics and the
\* bar chart's lines.
display_summary_stats(d) ==
  [impacts       |-> nunique(column(d, "impact")),
   types         |-> nunique(column(d, "type")),
   criteres      |-> nunique(column(d, "critère")),
   total         |-> Len(d.rows),
   impact_counts |-> sort_values(groupby_size(d, "impact"))]

\* The comprehension with only the query lower-cased.
search_filter_case_sensitive(items, query) ==
  LET hit(item) ==
        \/ contains(lower(query), item.critere)
        \/ contains(lower(query), item.description)
        \/ contains(lower(query), item.type)
        \/ contains(lower(query), item.impact)
  IN  SelectSeq(items, hit)

\* The comprehension of main() that keeps the items matching the query.
search_filter(items, query) ==
  LET hit(item) ==
        \/ contains(lower(query), lower(item.critere))
        \/ contains(lower(query), lower(item.description))
        \/ contains(lower(query), lower(item.type))
        \/ contains(lower(query), lower(item.impact))
  IN  SelectSeq(items, hit)

\* pd.DataFrame(demo_data)
df_demo ==
  DataFrame(<<"impact", "type", "critère", "description">>,
            [i \in 1..Len(demo_impact) |->
               <<Cell(demo_impact[i]), Cell(demo_type[i]),
                 Cell(demo_critere[i]), Cell(demo_description[i])>>])

(***************************************************************************)
(* Bounds of the model.                                                    *)
(***************************************************************************)
MaxClock == 600

MaxRows == 2

MaxTextLen == 8

MaxWidth == 4

\* @st.cache_data(ttl=300)
ttl == 300

(***************************************************************************)
(* State.                                                                  *)
(*   clock, environ, secrets : wall clock (s), os.environ and st.secrets   *)
(*   cache              : the st.cache_data entry of the fetch, or None    *)
(*   pc                 : position of the script run                       *)
(*   search_query, show_raw_data : the widgets read by main()              *)
(*   df                 : main()'s df / the frame being decoded            *)
(*   ui                 : elements put on the page by this run, in order   *)
(*   attempts           : decoders called by this run, in order            *)
(*   http_requests      : requests.get calls of this run                   *)
(*   call               : history of this run's fetch call                 *)
(*   stats, tree_data, filtered_tree_data : main()'s results               *)
(*   text, max_width, wrapped : input and output of the label formatter    *)
(***************************************************************************)
VARIABLES clock, environ, secrets, cache, pc, search_query, show_raw_data,
          df, ui, attempts, http_requests, call, stats, tree_data,
          filtered_tree_data, text, max_width, wrapped

vars == <<clock, environ, secrets, cache, pc, search_query, show_raw_data,
          df, ui, attempts, http_requests, call, stats, tree_data,
          filtered_tree_data, text, max_width, wrapped>>

hostVars == <<clock, environ, secrets>>

widgetVars == <<search_query, show_raw_data>>

fetchVars == <<attempts, http_requests, call>>

resultVars == <<stats, tree_data, filtered_tree_data>>

wrapVars == <<text, max_width, wrapped>>

element(kind, detail) == [kind |-> kind, detail |-> detail]

(***************************************************************************)
(* fetch_data_from_nextcloud                                               *)
(***************************************************************************)
\* An unset (or empty) variable or secret.
Unset == ""

\* username, password after lines 25-35: the environment first, then the
\* secrets when one of the two is missing; unavailable secrets change nothing
\* (the handler of line 33 holds only its comment and is read as it says:
\* the run goes on with the values of the environment).
credentials(env, sec) ==
  IF (env.user = Unset \/ env.password = Unset) /\ sec.available
  THEN [user     |-> IF sec.user # Unset THEN sec.user ELSE env.user,
        password |-> IF sec.password # Unset THEN sec.password ELSE env.password]
  ELSE [user |-> env.user, password |-> env.password]

credentials_missing(c) == c.user = Unset \/ c.password = Unset

\* The cache key of a call: the function takes no argument, so every call
\* has the same key.
cache_key == <<>>

\* The entry answers a call while it is younger than ttl.
cache_valid ==
  /\ cache # None
  /\ cache.key = cache_key
  /\ clock < cache.stored_at + ttl

\* The function returns value having shown messages: the decorator stores
\* both under the call's key.  filled_with is history, read by no action.
cache_entry(value, messages) ==
  [key |-> cache_key, value |-> value, messages |-> messages,
   stored_at |-> clock,
   filled_with |-> credentials(environ, secrets)]

fetch_return(value, messages) ==
  /\ df' = value
  /\ ui' = ui \o messages
  /\ cache' = cache_entry(value, messages)
  /\ pc' = "main"

is_frame(r) == "columns" \in DOMAIN r

\* The process environments a run can find.
Environments ==
  { [environ |-> [user |-> "alice", password |-> "pw-a"],
     secrets |-> [available |-> FALSE, user |-> Unset, password |-> Unset]],
    [environ |-> [user |-> "bob", password |-> "pw-b"],
     secrets |-> [available |-> FALSE, user |-> Unset, password |-> Unset]],
    [environ |-> [user |-> Unset, password |-> Unset],
     secrets |-> [available |-> FALSE, user |-> Unset, password |-> Unset]],
    [environ |-> [user |-> "alice", password |-> Unset],
     secrets |-> [available |-> TRUE, user |-> Unset, password |-> "pw-s"]] }

RequestExceptions == {"Timeout", "ConnectionError"}

ErrorStatusCodes == {404, 500}

\* Frames and errors a decoder can produce from a response body.
full_row(n) == [i \in 1..n |-> Cell(<<"x">>)]

holed_row(n) == [i \in 1..n |-> IF i = 3 THEN NaN ELSE Cell(<<" ", "y">>)]

DecodedColumns ==
  { <<"a;b;c;d">>,
    <<"impact", "type", "description">>,
    <<"Impact", "Type", "Critère", "Description">>,
    <<"a", "b", "c", "d", "e">> }

DecodedFrames ==
  { DataFrame(c, <<full_row(Len(c)), holed_row(Len(c))>>) :
      c \in DecodedColumns }
    \cup { DataFrame(<<"a", "b", "c", "d", "e">>, <<>>) }

DecodeErrors == { [error |-> "BadZipFile"], [error |-> "ParserError"] }

\* A run of the script starts: the widgets are read (lines 238-261) and the
\* page is empty.  d seconds have passed since the previous run.
Rerun ==
  /\ pc \in {"start", "done"}
  /\ \E d \in {0, ttl - 1, ttl} :
       /\ clock + d <= MaxClock
       /\ clock' = clock + d
  /\ \E q \in {<<>>, <<"X">>}, raw \in BOOLEAN :
       /\ search_query' = q
       /\ show_raw_data' = raw
  /\ pc' = "fetch"
  /\ df' = None
  /\ ui' = <<>>
  /\ attempts' = <<>>
  /\ http_requests' = 0
  /\ call' = None
  /\ stats' = None
  /\ tree_data' = <<>>
  /\ filtered_tree_data' = <<>>
  /\ UNCHANGED <<environ, secrets, cache, wrapVars>>

\* Between two runs the variables of the process or the secrets change
\* (.env is reloaded by load_dotenv at every run, line 10).
SetEnvironment ==
  /\ pc \in {"start", "done"}
  /\ \E e \in Environments :
       /\ e.environ # environ \/ e.secrets # secrets
       /\ environ' = e.environ
       /\ secrets' = e.secrets
  /\ UNCHANGED <<clock, cache, pc, widgetVars, df, ui, fetchVars,
                 resultVars, wrapVars>>

\* The history of the call: whether it found an entry younger than ttl, and
\* whether the entry found was filled by a call with the same credentials.
call_record ==
  [fresh |-> cache_valid,
   same_credentials |->
     cache # None /\ cache.filled_with = credentials(environ, secrets)]

\* Line 265 with a valid entry: the body does not run; the stored value is
\* returned and the stored messages are shown again.
FetchCached ==
  /\ pc = "fetch"
  /\ cache_valid
  /\ df' = cache.value
  /\ ui' = ui \o cache.messages
  /\ call' = call_record
  /\ pc' = "main"
  /\ UNCHANGED <<hostVars, cache, widgetVars, attempts, http_requests,
                 resultVars, wrapVars>>

\* Lines 25-38: no username or no password.
FetchCredentialsMissing ==
  /\ pc = "fetch"
  /\ ~cache_valid
  /\ credentials_missing(credentials(environ, secrets))
  /\ call' = call_record
  /\ fetch_return(None, <<element("error_credentials", <<>>)>>)
  /\ UNCHANGED <<hostVars, widgetVars, attempts, http_requests, resultVars,
                 wrapVars>>

\* Lines 45, 74-76: requests.get raises (timeout after 10 s, no connection).
FetchRequestException ==
  /\ pc = "fetch"
  /\ ~cache_valid
  /\ ~credentials_missing(credentials(environ, secrets))
  /\ \E e \in RequestExceptions :
       fetch_return(None, <<element("error_connection", e)>>)
  /\ call' = call_record
  /\ http_requests' = http_requests + 1
  /\ UNCHANGED <<hostVars, widgetVars, attempts, resultVars, wrapVars>>

\* A status other than 200 answered by a second request.
FetchHttpErrorRetried ==
  /\ pc = "fetch"
  /\ ~cache_valid
  /\ ~credentials_missing(credentials(environ, secrets))
  /\ \E status \in ErrorStatusCodes :
       fetch_return(None, <<element("error_http", status)>>)
  /\ call' = call_record
  /\ http_requests' = http_requests + 2
  /\ UNCHANGED <<hostVars, widgetVars, attempts, resultVars, wrapVars>>

\* Lines 45-47, 70-72: a response whose status is not 200.
FetchHttpError ==
  /\ pc = "fetch"
  /\ ~cache_valid
  /\ ~credentials_missing(credentials(environ, secrets))
  /\ \E status \in ErrorStatusCodes :
       fetch_return(None, <<element("error_http", status)>>)
  /\ call' = call_record
  /\ http_requests' = http_requests + 1
  /\ UNCHANGED <<hostVars, widgetVars, attempts, resultVars, wrapVars>>

\* Lines 45-47: status 200; the body goes to the decoders.
FetchHttpOk ==
  /\ pc = "fetch"
  /\ ~cache_valid
  /\ ~credentials_missing(credentials(environ, secrets))
  /\ call' = call_record
  /\ http_requests' = http_requests + 1
  /\ pc' = "read_excel"
  /\ UNCHANGED <<hostVars, cache, widgetVars, df, ui, attempts, resultVars,
                 wrapVars>>

\* What a decoder call leaves in attempts.
attempt(decoder, r) ==
  [decoder |-> decoder,
   frame   |-> is_frame(r),
   columns |-> IF is_frame(r) THEN Len(r.columns) ELSE 0,
   error   |-> IF is_frame(r) THEN "" ELSE r.error]

\* The semicolon retry taken for four columns as well.
needs_semicolon_up_to_four(r) == Len(r.columns) <= 4

\* Line 60: the comma frame is dropped for a semicolon attempt.
needs_semicolon(r) == Len(r.columns) < 4

\* Lines 49-51, 56-57: pd.read_excel; any failure leads to the CSV attempts.
ReadExcel ==
  /\ pc = "read_excel"
  /\ \E r \in DecodedFrames \cup DecodeErrors :
       /\ attempts' = Append(attempts, attempt("excel", r))
       /\ IF is_frame(r)
          THEN /\ df' = r
               /\ pc' = "rename_excel"
          ELSE /\ pc' = "read_csv_comma"
               /\ UNCHANGED df
  /\ UNCHANGED <<hostVars, cache, widgetVars, ui, http_requests, call,
                 resultVars, wrapVars>>

\* Lines 53-55: the Excel frame is renamed and returned.
RenameExcel ==
  /\ pc = "rename_excel"
  /\ fetch_return(normalize_columns(df), <<>>)
  /\ UNCHANGED <<hostVars, widgetVars, fetchVars, resultVars, wrapVars>>

\* Lines 58-62, 67-69: pd.read_csv(sep=',').
ReadCsvComma ==
  /\ pc = "read_csv_comma"
  /\ \E r \in DecodedFrames \cup DecodeErrors :
       /\ attempts' = Append(attempts, attempt("comma", r))
       /\ IF ~is_frame(r)
          THEN fetch_return(None, <<element("error_read", r.error)>>)
          ELSE /\ df' = r
               /\ pc' = IF needs_semicolon(r) THEN "read_csv_semicolon"
                                              ELSE "rename_csv"
               /\ UNCHANGED <<ui, cache>>
  /\ UNCHANGED <<hostVars, widgetVars, http_requests, call, resultVars,
                 wrapVars>>

\* Lines 62, 67-69: pd.read_csv(sep=';') replaces the comma frame; its
\* failure is reported like the comma attempt's and None is returned.
ReadCsvSemicolon ==
  /\ pc = "read_csv_semicolon"
  /\ \E r \in DecodedFrames \cup DecodeErrors :
       /\ attempts' = Append(attempts, attempt("semicolon", r))
       /\ IF ~is_frame(r)
          THEN fetch_return(None, <<element("error_read", r.error)>>)
          ELSE /\ df' = r
               /\ pc' = "rename_csv"
               /\ UNCHANGED <<ui, cache>>
  /\ UNCHANGED <<hostVars, widgetVars, http_requests, call, resultVars,
                 wrapVars>>

\* Lines 64-66: the CSV frame is renamed and returned.
RenameCsv ==
  /\ pc = "rename_csv"
  /\ fetch_return(normalize_columns(df), <<>>)
  /\ UNCHANGED <<hostVars, widgetVars, fetchVars, resultVars, wrapVars>>

(***************************************************************************)
(* main() after the fetch                                                  *)
(***************************************************************************)
\* The column check satisfied by any one required column.
has_any_required_column(d) ==
  \E k \in 1..Len(required_columns) :
    \E i \in 1..Len(d.columns) : d.columns[i] = required_columns[k]

has_required_columns(d) ==
  \A k \in 1..Len(required_columns) :
    \E i \in 1..Len(d.columns) : d.columns[i] = required_columns[k]

\* Lines 267-275: a frame came back; the run stops here when a required
\* column is absent.
CheckColumns ==
  /\ pc = "main"
  /\ df # None
  /\ IF has_required_columns(df)
     THEN /\ ui' = Append(ui, element("success", <<>>))
          /\ pc' = "stats"
     ELSE /\ ui' = ui \o <<element("success", <<>>),
                           element("error_columns", df.columns),
                           element("info_required", required_columns)>>
          /\ pc' = "done"
  /\ UNCHANGED <<hostVars, cache, widgetVars, df, fetchVars, resultVars,
                 wrapVars>>

\* Line 278.
DisplaySummaryStats ==
  /\ pc = "stats"
  /\ stats' = display_summary_stats(df)
  /\ ui' = Append(ui, element("summary_stats", display_summary_stats(df)))
  /\ pc' = "tree"
  /\ UNCHANGED <<hostVars, cache, widgetVars, df, fetchVars, tree_data,
                 filtered_tree_data, wrapVars>>

\* Line 282.
CreateTree ==
  /\ pc = "tree"
  /\ tree_data' = create_tree_visualization(df)
  /\ pc' = "display"
  /\ UNCHANGED <<hostVars, cache, widgetVars, df, ui, fetchVars, stats,
                 filtered_tree_data, wrapVars>>

\* Lines 305-314.
raw_data_elements ==
  IF show_raw_data
  THEN <<element("raw_data", df), element("download", df)>>
  ELSE <<>>

\* Lines 284-314: the search results or the tree, then the raw data.
DisplayResults ==
  /\ pc = "display"
  /\ IF search_query # <<>>
     THEN LET found == search_filter(tree_data, search_query)
          IN  /\ filtered_tree_data' = found
              /\ ui' = ui
                   \o (IF found # <<>>
                       THEN <<element("search_info", Len(found)),
                              element("search_results", found)>>
                       ELSE <<element("search_warning", search_query)>>)
                   \o raw_data_elements
     ELSE /\ ui' = ui \o <<element("tree", tree_data)>> \o raw_data_elements
          /\ UNCHANGED filtered_tree_data
  /\ pc' = "done"
  /\ UNCHANGED <<hostVars, cache, widgetVars, df, fetchVars, stats, tree_data,
                 wrapVars>>

\* Lines 316-362: no frame came back; the demonstration frame is shown.
DisplayDemo ==
  /\ pc = "main"
  /\ df = None
  /\ stats' = display_summary_stats(df_demo)
  /\ tree_data' = create_tree_visualization(df_demo)
  /\ ui' = ui \o <<element("error_fetch", <<>>),
                   element("info_demo", <<>>),
                   element("summary_stats", display_summary_stats(df_demo)),
                   element("tree", create_tree_visualization(df_demo))>>
  /\ pc' = "done"
  /\ UNCHANGED <<hostVars, cache, widgetVars, df, fetchVars,
                 filtered_tree_data, wrapVars>>

Init ==
  /\ clock = 0
  /\ \E e \in Environments : environ = e.environ /\ secrets = e.secrets
  /\ cache = None
  /\ pc = "start"
  /\ search_query = <<>>
  /\ show_raw_data = FALSE
  /\ df = None
  /\ ui = <<>>
  /\ attempts = <<>>
  /\ http_requests = 0
  /\ call = None
  /\ stats = None
  /\ tree_data = <<>>
  /\ filtered_tree_data = <<>>
  /\ text = <<>>
  /\ max_width = 0
  /\ wrapped = <<>>

Next ==
  \/ Rerun
  \/ SetEnvironment
  \/ FetchCached
  \/ FetchCredentialsMissing
  \/ FetchRequestException
  \/ FetchHttpError
  \/ FetchHttpOk
  \/ ReadExcel
  \/ RenameExcel
  \/ ReadCsvComma
  \/ ReadCsvSemicolon
  \/ RenameCsv
  \/ CheckColumns
  \/ DisplaySummaryStats
  \/ CreateTree
  \/ DisplayResults
  \/ DisplayDemo

Spec == Init /\ [][Next]_vars

(***************************************************************************)
(* The part of main() that works on a fetched frame, over frames with the  *)
(* four canonical columns: the state is the one left by a first run whose  *)
(* Excel decode gave the frame.                                            *)
(***************************************************************************)
well_formed_row ==
  <<Cell(<<"A", "b">>), Cell(<<"T">>), Cell(<<"c", "D">>),
    Cell(<<" ", "e", " ">>)>>

ImpactCells == {NaN, Cell(<<"A", "b">>), Cell(<<" ", "A", "b">>)}

TypeCells == {NaN, Cell(<<"T">>)}

CritereCells == {NaN, Cell(<<" ">>), Cell(<<"c", "D">>)}

DescriptionCells == {NaN, Cell(<<" ">>), Cell(<<" ", "e", " ">>)}

\* Rows that differ from the well-formed row in at most two cells.
BuildRows ==
  { r \in ImpactCells \X TypeCells \X CritereCells \X DescriptionCells :
      Cardinality({k \in 1..4 : r[k] # well_formed_row[k]}) <= 2 }

RECURSIVE SeqsUpTo(_, _)
SeqsUpTo(S, n) ==
  IF n = 0 THEN {<<>>}
  ELSE LET shorter == SeqsUpTo(S, n - 1)
       IN  shorter \cup {Append(s, x) : s \in shorter, x \in S}

BuildFrames ==
  { DataFrame(required_columns, rs) : rs \in SeqsUpTo(BuildRows, MaxRows) }

Queries == {<<>>, <<"a", "B">>, <<"T">>, <<"c", "d">>, <<"E">>}

InitBuild ==
  /\ clock = 0
  /\ environ = [user |-> "alice", password |-> "pw-a"]
  /\ secrets = [available |-> FALSE, user |-> Unset, password |-> Unset]
  /\ df \in BuildFrames
  /\ cache = [key |-> cache_key, value |-> df, messages |-> <<>>,
              stored_at |-> 0,
              filled_with |-> [user |-> "alice", password |-> "pw-a"]]
  /\ pc = "main"
  /\ search_query \in Queries
  /\ show_raw_data = FALSE
  /\ ui = <<>>
  /\ attempts = <<attempt("excel", df)>>
  /\ http_requests = 1
  /\ call = [fresh |-> FALSE, same_credentials |-> FALSE]
  /\ stats = None
  /\ tree_data = <<>>
  /\ filtered_tree_data = <<>>
  /\ text = <<>>
  /\ max_width = 0
  /\ wrapped = <<>>

NextBuild ==
  \/ CheckColumns
  \/ DisplaySummaryStats
  \/ CreateTree
  \/ DisplayResults

SpecBuild == InitBuild /\ [][NextBuild]_vars

(***************************************************************************)
(* Label formatter: wrap(text, maxWidth) as the specification gives it     *)
(* (section 4.4); the dashboard variant that holds it is not part of the   *)
(* sources.                                                                *)
(***************************************************************************)
BreakMarker == "<br>"

\* text.split(): the maximal runs of non-whitespace characters.
RECURSIVE split_words(_, _)
split_words(s, word) ==
  IF s = <<>> THEN (IF word = <<>> THEN <<>> ELSE <<word>>)
  ELSE IF Head(s) \in Whitespace
  THEN (IF word = <<>> THEN <<>> ELSE <<word>>) \o split_words(Tail(s), <<>>)
  ELSE split_words(Tail(s), Append(word, Head(s)))

split(s) == split_words(s, <<>>)

\* The greedy rule without the separating space in the width test.
RECURSIVE wrap_lines_uncounted_space(_, _, _)
wrap_lines_uncounted_space(words, line, w) ==
  IF words = <<>> THEN (IF line = <<>> THEN <<>> ELSE <<line>>)
  ELSE IF line = <<>>
  THEN wrap_lines_uncounted_space(Tail(words), Head(words), w)
  ELSE IF Len(line) + Len(Head(words)) <= w
  THEN wrap_lines_uncounted_space(Tail(words),
                                  line \o <<" ">> \o Head(words), w)
  ELSE <<line>> \o wrap_lines_uncounted_space(Tail(words), Head(words), w)

\* A word joins the current line while len(line) + 1 + len(word) <= w;
\* otherwise the line is closed and the word starts the next one.
RECURSIVE wrap_lines(_, _, _)
wrap_lines(words, line, w) ==
  IF words = <<>> THEN (IF line = <<>> THEN <<>> ELSE <<line>>)
  ELSE IF line = <<>> THEN wrap_lines(Tail(words), Head(words), w)
  ELSE IF Len(line) + 1 + Len(Head(words)) <= w
  THEN wrap_lines(Tail(words), line \o <<" ">> \o Head(words), w)
  ELSE <<line>> \o wrap_lines(Tail(words), Head(words), w)

RECURSIVE join_lines(_)
join_lines(lines) ==
  IF lines = <<>> THEN <<>>
  ELSE IF Len(lines) = 1 THEN lines[1]
  ELSE lines[1] \o <<BreakMarker>> \o join_lines(Tail(lines))

wrap(t, w) == join_lines(wrap_lines(split(t), <<>>, w))

WrapChars == {"a", "b", " "}

Wrap ==
  /\ pc = "wrap"
  /\ wrapped' = wrap(text, max_width)
  /\ pc' = "wrapped"
  /\ UNCHANGED <<hostVars, cache, widgetVars, df, ui, fetchVars, resultVars,
                 text, max_width>>

InitWrap ==
  /\ clock = 0
  /\ environ = [user |-> Unset, password |-> Unset]
  /\ secrets = [available |-> FALSE, user |-> Unset, password |-> Unset]
  /\ cache = None
  /\ pc = "wrap"
  /\ search_query = <<>>
  /\ show_raw_data = FALSE
  /\ df = None
  /\ ui = <<>>
  /\ attempts = <<>>
  /\ http_requests = 0
  /\ call = None
  /\ stats = None
  /\ tree_data = <<>>
  /\ filtered_tree_data = <<>>
  /\ text \in SeqsUpTo(WrapChars, MaxTextLen)
  /\ max_width \in 1..MaxWidth
  /\ wrapped = <<>>

NextWrap == Wrap

SpecWrap == InitWrap /\ [][NextWrap]_vars

(***************************************************************************)
(* Properties.                                                             *)
(***************************************************************************)
KeyColumns == {"impact", "type", "critère"}

\* The j-th smallest element of a set of indices.
nth(S, j) == CHOOSE i \in S : Cardinality({k \in S : k < i}) = j - 1

kinds(elements) == {elements[i].kind : i \in 1..Len(elements)}

shows(kind, detail) ==
  \E i \in 1..Len(ui) : ui[i].kind = kind /\ ui[i].detail = detail

\* create_tree_visualization has run on a fetched frame.
tree_built == pc \in {"display", "done"} /\ df # None /\ stats # None

\* Rows whose three key cells are present and not empty once trimmed.
complete_rows(d) ==
  {i \in 1..Len(d.rows) :
     \A name \in KeyColumns :
       /\ notna(at(d, d.rows[i], name))
       /\ strip(at(d, d.rows[i], name).text) # <<>>}

\* Rows whose three key cells are not NaN.
rows_without_nan_key(d) ==
  {i \in 1..Len(d.rows) :
     \A name \in KeyColumns : notna(at(d, d.rows[i], name))}

\* C1: build returns, in row order, exactly one record for each row whose
\* impact, type and criterion are all non-null and non-empty after
\* trimming, and none for any other row; so it returns no more records than
\* rows, and every record has a non-empty impact, type and criterion.
C1_BuildKeepsExactlyCompleteRows ==
  tree_built =>
    LET kept == complete_rows(df)
    IN  /\ Len(tree_data) <= Len(df.rows)
        /\ Len(tree_data) = Cardinality(kept)
        /\ \A j \in 1..Len(tree_data) :
             LET row == df.rows[nth(kept, j)]
             IN  /\ tree_data[j].impact = strip(at(df, row, "impact").text)
                 /\ tree_data[j].type = strip(at(df, row, "type").text)
                 /\ tree_data[j].critere = strip(at(df, row, "critère").text)
        /\ \A j \in 1..Len(tree_data) :
             /\ tree_data[j].impact # <<>>
             /\ tree_data[j].type # <<>>
             /\ tree_data[j].critere # <<>>

\* C2: for every row that survives build, the record's description is the
\* placeholder whenever the input description is null or empty after
\* trimming, and the trimmed input description otherwise.
C2_PlaceholderForNullOrBlank ==
  tree_built =>
    LET kept == rows_without_nan_key(df)
    IN  /\ Len(tree_data) = Cardinality(kept)
        /\ \A j \in 1..Len(tree_data) :
             LET cell == at(df, df.rows[nth(kept, j)], "description")
             IN  IF cell.isna \/ strip(cell.text) = <<>>
                 THEN tree_data[j].description = PLACEHOLDER
                 ELSE tree_data[j].description = strip(cell.text)

\* What the code gives instead: the placeholder for a NaN description only;
\* a description holding only whitespace becomes the empty text.
PlaceholderForNaNOnly ==
  tree_built =>
    LET kept == rows_without_nan_key(df)
    IN  /\ Len(tree_data) = Cardinality(kept)
        /\ \A j \in 1..Len(tree_data) :
             LET cell == at(df, df.rows[nth(kept, j)], "description")
             IN  /\ cell.isna => tree_data[j].description = PLACEHOLDER
                 /\ ~cell.isna => tree_data[j].description = strip(cell.text)

\* The decoded frame is being renamed (lines 53-54 and 64-65).
renaming == pc \in {"rename_excel", "rename_csv"}

\* C3: for a decoded frame of at least 4 columns, whichever decoder gave
\* it, the renaming replaces exactly the first four headers by impact,
\* type, critère, description and leaves the later headers, the row order
\* and every cell unchanged; a frame of fewer than 4 columns is unchanged.
C3_RenamesExactlyFirstFour ==
  [][renaming =>
       /\ df'.rows = df.rows
       /\ Len(df'.columns) = Len(df.columns)
       /\ IF Len(df.columns) >= 4
          THEN /\ SubSeq(df'.columns, 1, 4)
                    = <<"impact", "type", "critère", "description">>
               /\ \A i \in 5..Len(df.columns) : df'.columns[i] = df.columns[i]
          ELSE df'.columns = df.columns]_vars

\* A five-column frame decoded by the semicolon attempt has been renamed
\* and returned with its rows.
C3_Witness ==
  /\ pc = "main"
  /\ Len(attempts) = 3
  /\ attempts[3].frame
  /\ df # None
  /\ df.columns = <<"impact", "type", "critère", "description", "e">>
  /\ df.rows # <<>>

DecoderOrder == <<"excel", "comma", "semicolon">>

after_fetch == pc \in {"main", "stats", "tree", "display", "done"}

\* The decoders run in the order Excel, comma, semicolon; comma only after
\* Excel failed; semicolon only after a comma frame of fewer than 4
\* columns; an Excel frame is returned with no CSV attempt.
attempts_in_order ==
  /\ Len(attempts) <= 3
  /\ \A i \in 1..Len(attempts) : attempts[i].decoder = DecoderOrder[i]
  /\ Len(attempts) >= 2 => ~attempts[1].frame
  /\ Len(attempts) >= 3 => attempts[2].frame /\ attempts[2].columns < 4
  /\ (attempts # <<>> /\ attempts[1].frame) =>
       /\ Len(attempts) = 1
       /\ after_fetch => (df # None /\ Len(df.columns) = attempts[1].columns)

\* This run decoded the response and the fetch returned None.
parse_failure == after_fetch /\ attempts # <<>> /\ df = None

\* C4 as stated: the attempts run in order, first success wins, and a
\* parse failure carrying the last error is returned only when no attempt
\* produced a table.
C4_FailureOnlyWhenNoTable ==
  /\ attempts_in_order
  /\ parse_failure =>
       /\ \A i \in 1..Len(attempts) : ~attempts[i].frame
       /\ shows("error_read", attempts[Len(attempts)].error)

\* C4 amended: the attempts run in order, and a parse failure carrying the
\* last error is returned exactly when the last attempt that ran raised:
\* the comma attempt, or the semicolon attempt made after a comma frame of
\* fewer than 4 columns, whose frame is then dropped.
C4_FailureWhenLastAttemptRaised ==
  /\ attempts_in_order
  /\ (after_fetch /\ attempts # <<>>) =>
       /\ df = None <=> ~attempts[Len(attempts)].frame
       /\ df = None => /\ Len(attempts) >= 2
                       /\ shows("error_read", attempts[Len(attempts)].error)

\* The comma attempt gave a frame of fewer than 4 columns, the semicolon
\* attempt raised, and the fetch returned None with that error.
C4_Witness ==
  /\ pc = "main"
  /\ df = None
  /\ Len(attempts) = 3
  /\ attempts[2].frame
  /\ ~attempts[3].frame
  /\ shows("error_read", attempts[3].error)

FetchErrorKinds ==
  {"error_credentials", "error_http", "error_connection", "error_read"}

\* C5: when the fetch yields no table the run makes no further HTTP
\* request, shows an error, produces no record from the response and
\* shows the statistics and the tree of the demonstration table, whose
\* columns are the four canonical ones.
C5_FailureFallsBackToDemo ==
  /\ http_requests <= 1
  /\ df_demo.columns = <<"impact", "type", "critère", "description">>
  /\ (after_fetch /\ df = None) =>
       /\ pc \in {"main", "done"}
       /\ kinds(ui) \cap FetchErrorKinds # {}
  /\ (pc = "main" /\ df = None /\ ~call.fresh
        /\ credentials_missing(credentials(environ, secrets))) =>
       http_requests = 0
  /\ (pc = "done" /\ df = None) =>
       /\ "error_fetch" \in kinds(ui)
       /\ "info_demo" \in kinds(ui)
       /\ kinds(ui) \cap {"success", "search_results", "raw_data"} = {}
       /\ Len(tree_data) = Len(demo_impact)
       /\ \A i \in 1..Len(tree_data) :
            /\ tree_data[i].impact = demo_impact[i]
            /\ tree_data[i].type = demo_type[i]
            /\ tree_data[i].critere = demo_critere[i]
            /\ tree_data[i].description = demo_description[i]
       /\ shows("tree", tree_data)
       /\ stats # None
       /\ stats.total = Len(demo_impact)
       /\ shows("summary_stats", stats)

\* A run whose request was answered 404 ended on the demonstration table.
C5_Witness ==
  /\ pc = "done"
  /\ df = None
  /\ http_requests = 1
  /\ shows("error_http", 404)
  /\ Len(tree_data) = Len(demo_impact)

\* A frame lacks one of the four required columns.
lacks_required_column(d) ==
  \E name \in {"impact", "type", "critère", "description"} :
    name \notin {d.columns[i] : i \in 1..Len(d.columns)}

\* C6: a fetched frame that lacks a required column after the renaming, in
\* particular every frame of fewer than 4 columns, ends the run in a schema
\* failure that lists the columns found, before any statistic, build,
\* search or raw-data step; no record is produced and the demonstration
\* table is not used.
C6_MissingColumnStopsRun ==
  (after_fetch /\ df # None) =>
    /\ Len(df.columns) < 4 => lacks_required_column(df)
    /\ lacks_required_column(df) =>
         /\ pc \in {"main", "done"}
         /\ stats = None
         /\ tree_data = <<>>
         /\ filtered_tree_data = <<>>
         /\ kinds(ui) \cap {"summary_stats", "tree", "search_info",
                            "search_results", "search_warning", "raw_data",
                            "download", "info_demo", "error_fetch"} = {}
         /\ pc = "done" => shows("error_columns", df.columns)

\* A run with a query and the raw-data box ticked ended on the schema
\* failure of a three-column frame.
C6_Witness ==
  /\ pc = "done"
  /\ df # None
  /\ Len(df.columns) = 3
  /\ search_query # <<>>
  /\ show_raw_data
  /\ shows("error_columns", df.columns)

\* The lower-cased query is a substring of one lower-cased field.
matches(item, query) ==
  \E field \in {item.critere, item.description, item.type, item.impact} :
    contains(lower(query), lower(field))

\* main() went through the search / tree step on a fetched frame.
results_displayed == pc = "done" /\ df # None /\ stats # None

\* C7: the search result is exactly the subsequence, in order, of the
\* records one of whose fields contains the query, case ignored; with an
\* empty query every record is shown.
C7_SearchKeepsMatchingRecordsInOrder ==
  results_displayed =>
    IF search_query = <<>>
    THEN shows("tree", tree_data)
    ELSE LET hits == {i \in 1..Len(tree_data) :
                        matches(tree_data[i], search_query)}
         IN  /\ Len(filtered_tree_data) = Cardinality(hits)
             /\ \A j \in 1..Len(filtered_tree_data) :
                  filtered_tree_data[j] = tree_data[nth(hits, j)]
             /\ hits # {} => shows("search_results", filtered_tree_data)

\* The query "cd" kept the second of two records, whose criterion is "cD".
C7_Witness ==
  /\ results_displayed
  /\ search_query = <<"c", "d">>
  /\ Len(tree_data) = 2
  /\ Len(filtered_tree_data) = 1
  /\ filtered_tree_data[1] = tree_data[2]
  /\ tree_data[2].critere = <<"c", "D">>

\* C8: a fetch call within ttl of an earlier call with the same credentials
\* makes no HTTP request and returns the earlier result; a call after
\* expiry, or with other credentials, makes a new HTTP request.  (Stated
\* on the states of the run that made the call, with credentials to send.)
C8_CacheKeyedByCredentials ==
  (pc \notin {"start", "fetch", "done"}
     /\ ~credentials_missing(credentials(environ, secrets))) =>
    /\ (call.fresh /\ call.same_credentials) =>
         /\ http_requests = 0
         /\ pc = "main" => df = cache.value
    /\ ~call.fresh => http_requests = 1
    /\ ~call.same_credentials => http_requests = 1

\* C9: for every impact value, the count shown in the summary is the
\* number of records build produced with that impact.
C9_CountsTallyTheRecords ==
  tree_built =>
    /\ \A k \in 1..Len(stats.impact_counts) :
         stats.impact_counts[k].count =
           Cardinality({j \in 1..Len(tree_data) :
                          tree_data[j].impact = stats.impact_counts[k].impact})
    /\ \A j \in 1..Len(tree_data) :
         \E k \in 1..Len(stats.impact_counts) :
           stats.impact_counts[k].impact = tree_data[j].impact

\* The lines of a wrapped text: the pieces between break markers.
RECURSIVE lines_of(_, _)
lines_of(s, line) ==
  IF s = <<>> THEN <<line>>
  ELSE IF Head(s) = BreakMarker THEN <<line>> \o lines_of(Tail(s), <<>>)
  ELSE lines_of(Tail(s), Append(line, Head(s)))

RECURSIVE words_of_lines(_)
words_of_lines(lines) ==
  IF lines = <<>> THEN <<>>
  ELSE split(Head(lines)) \o words_of_lines(Tail(lines))

\* C10: wrap never splits a word, and no output line is longer than
\* maxWidth unless it consists of a single word longer than maxWidth.
C10_WrapKeepsWordsWithinWidth ==
  pc = "wrapped" =>
    LET lines == lines_of(wrapped, <<>>)
    IN  /\ words_of_lines(lines) = split(text)
        /\ \A i \in 1..Len(lines) :
             \/ Len(lines[i]) <= max_width
             \/ /\ Len(split(lines[i])) = 1
                /\ split(lines[i])[1] = lines[i]

\* A text was wrapped into a line of one word longer than the width and a
\* line of two words.
C10_Witness ==
  /\ pc = "wrapped"
  /\ LET lines == lines_of(wrapped, <<>>)
     IN  /\ \E i \in 1..Len(lines) : Len(lines[i]) > max_width
         /\ \E i \in 1..Len(lines) : Len(split(lines[i])) = 2

=============================================================================
